---- MODULE Spec2Model ----
(***************************************************************************)
(* Model of the two MinIO utility scripts of Kafka-s3-connector:           *)
(*   create_bucket.py  : create_s3_bucket()  (the bucket provisioner)      *)
(*   check_s3_data.py  : check_s3_data()     (the bucket inspector)        *)
(* The object store behind the boto3 client is part of the state; each     *)
(* statement group of a script is one action, and pc is the script's       *)
(* position.  Text is modelled as a sequence of lexical tokens.            *)
(***************************************************************************)
EXTENDS Integers, Sequences, FiniteSets, TLC

\* ------------------------------------------------------------------------
\* Bounds
\* ------------------------------------------------------------------------
MaxObjs == 2      \* most objects in the bucket
MaxArr == 3      \* longest JSON array generated as object content
MaxRuns == 2      \* tool runs in one behaviour

\* ------------------------------------------------------------------------
\* Configuration of the scripts
\* ------------------------------------------------------------------------
bucket_name == "test-data-lake"
OtherBucket == "kafka-archive"
AllKeys == <<"b.txt", "a.json", "c.bin">>

\* ------------------------------------------------------------------------
\* JSON values: [t, lex, items].  t is the Python type after json.loads:
\* "list", "dict", or a scalar type; a dict's items are "pair" values whose
\* lex is the key and whose single item is the value.
\* ------------------------------------------------------------------------
Scalar(tok) ==
    [t |-> CASE tok = "1" -> "int"
             [] tok = "\"k\"" -> "str"
             [] tok = "true" -> "bool"
             [] OTHER -> "NoneType",
     lex |-> tok, items |-> <<>>]
List(xs) == [t |-> "list", lex |-> "", items |-> xs]
Dict(ps) == [t |-> "dict", lex |-> "", items |-> ps]
Pair(k, v) == [t |-> "pair", lex |-> k, items |-> <<v>>]

ScalarTokens == {"1", "\"k\"", "true", "null"}
StringTokens == {"\"k\""}
Whitespace == {" "}

\* ------------------------------------------------------------------------
\* json.loads
\* ------------------------------------------------------------------------
ParseFail == [ok |-> FALSE, val |-> Scalar("null"), rest |-> <<>>]
ParseOk(v, rest) == [ok |-> TRUE, val |-> v, rest |-> rest]

RECURSIVE SkipWs(_)
SkipWs(s) ==
    IF s # <<>> /\ Head(s) \in Whitespace THEN SkipWs(Tail(s)) ELSE s

\* a dict keeps the position of a key's first occurrence and its last value
RECURSIVE PutPair(_, _, _)
PutPair(ps, k, v) ==
    IF ps = <<>> THEN <<Pair(k, v)>>
    ELSE IF Head(ps).lex = k THEN <<Pair(k, v)>> \o Tail(ps)
    ELSE <<Head(ps)>> \o PutPair(Tail(ps), k, v)

RECURSIVE ParseValue(_), ParseElems(_, _), ParseMembers(_, _)
ParseValue(s) ==
    LET t == SkipWs(s) IN
    IF t = <<>> THEN ParseFail
    ELSE IF Head(t) = "[" THEN
        LET u == SkipWs(Tail(t)) IN
        IF u # <<>> /\ Head(u) = "]" THEN ParseOk(List(<<>>), Tail(u))
        ELSE ParseElems(u, <<>>)
    ELSE IF Head(t) = "{" THEN
        LET u == SkipWs(Tail(t)) IN
        IF u # <<>> /\ Head(u) = "}" THEN ParseOk(Dict(<<>>), Tail(u))
        ELSE ParseMembers(u, <<>>)
    ELSE IF Head(t) \in ScalarTokens THEN ParseOk(Scalar(Head(t)), Tail(t))
    ELSE ParseFail

ParseElems(s, acc) ==
    LET r == ParseValue(s) IN
    IF ~r.ok THEN ParseFail
    ELSE LET u == SkipWs(r.rest) IN
         IF u = <<>> THEN ParseFail
         ELSE IF Head(u) = "," THEN ParseElems(Tail(u), Append(acc, r.val))
         ELSE IF Head(u) = "]" THEN ParseOk(List(Append(acc, r.val)), Tail(u))
         ELSE ParseFail

ParseMembers(s, acc) ==
    LET t == SkipWs(s) IN
    IF t = <<>> \/ Head(t) \notin StringTokens THEN ParseFail
    ELSE LET c == SkipWs(Tail(t)) IN
         IF c = <<>> \/ Head(c) # ":" THEN ParseFail
         ELSE LET r == ParseValue(Tail(c)) IN
              IF ~r.ok THEN ParseFail
              ELSE LET u == SkipWs(r.rest)
                       ps == PutPair(acc, Head(t), r.val) IN
                   IF u = <<>> THEN ParseFail
                   ELSE IF Head(u) = "," THEN ParseMembers(Tail(u), ps)
                   ELSE IF Head(u) = "}" THEN ParseOk(Dict(ps), Tail(u))
                   ELSE ParseFail

\* json.loads(content): ok = FALSE stands for json.JSONDecodeError
JsonLoads(s) ==
    LET r == ParseValue(s) IN
    IF r.ok /\ SkipWs(r.rest) = <<>> THEN r ELSE ParseFail

\* ------------------------------------------------------------------------
\* json.dumps(value, indent=2)
\* ------------------------------------------------------------------------
RECURSIVE Indent(_)
Indent(n) == IF n = 0 THEN <<>> ELSE <<"  ">> \o Indent(n - 1)

RECURSIVE Dumps(_, _), DumpItems(_, _)
Dumps(v, lvl) ==
    IF v.t = "list" THEN
        IF v.items = <<>> THEN <<"[", "]">>
        ELSE <<"[">> \o DumpItems(v.items, lvl + 1)
                     \o <<"\n">> \o Indent(lvl) \o <<"]">>
    ELSE IF v.t = "dict" THEN
        IF v.items = <<>> THEN <<"{", "}">>
        ELSE <<"{">> \o DumpItems(v.items, lvl + 1)
                     \o <<"\n">> \o Indent(lvl) \o <<"}">>
    ELSE IF v.t = "pair" THEN <<v.lex, ":", " ">> \o Dumps(v.items[1], lvl)
    ELSE <<v.lex>>

DumpItems(xs, lvl) ==
    IF xs = <<>> THEN <<>>
    ELSE <<"\n">> \o Indent(lvl) \o Dumps(Head(xs), lvl)
         \o (IF Len(xs) > 1 THEN <<",">> ELSE <<>>)
         \o DumpItems(Tail(xs), lvl)

JsonDumps(v) == Dumps(v, 0)

\* ------------------------------------------------------------------------
\* bytes.decode('utf-8').  A body is a sequence of bytes; an ASCII byte is
\* written as its character.  0xC3 0xA9 is the two-byte encoding of e-acute,
\* 0xFF occurs in no encoding; ok = FALSE stands for UnicodeDecodeError.
\* ------------------------------------------------------------------------
InvalidByte == "0xFF"
LeadByte == "0xC3"
ContByte == "0xA9"
EAcute == "e'"

RECURSIVE Utf8(_, _)
Utf8(body, acc) ==
    IF body = <<>> THEN [ok |-> TRUE, text |-> acc]
    ELSE IF Head(body) = LeadByte THEN
        IF Len(body) > 1 /\ body[2] = ContByte
        THEN Utf8(Tail(Tail(body)), Append(acc, EAcute))
        ELSE [ok |-> FALSE, text |-> <<>>]
    ELSE IF Head(body) \in {InvalidByte, ContByte}
        THEN [ok |-> FALSE, text |-> <<>>]
    ELSE Utf8(Tail(body), Append(acc, Head(body)))

Decode(body) == Utf8(body, <<>>)

\* ------------------------------------------------------------------------
\* Object contents offered to the inspector
\* ------------------------------------------------------------------------
RECURSIVE Compact(_), CompactItems(_)
Compact(v) ==
    IF v.t = "list" THEN <<"[">> \o CompactItems(v.items) \o <<"]">>
    ELSE IF v.t = "dict" THEN <<"{">> \o CompactItems(v.items) \o <<"}">>
    ELSE IF v.t = "pair" THEN <<v.lex, ":">> \o Compact(v.items[1])
    ELSE <<v.lex>>
CompactItems(xs) ==
    IF xs = <<>> THEN <<>>
    ELSE Compact(Head(xs)) \o (IF Len(xs) > 1 THEN <<",">> ELSE <<>>)
         \o CompactItems(Tail(xs))

Scalars == {Scalar(tok) : tok \in ScalarTokens}
Elems == Scalars \cup {List(<<>>), List(<<Scalar("1")>>),
                       Dict(<<Pair("\"k\"", Scalar("1"))>>)}
Lists == UNION {{List(xs) : xs \in [1..n -> Elems]} : n \in 0..MaxArr}
Dicts == {Dict(<<>>)} \cup {Dict(<<Pair("\"k\"", e)>>) : e \in Elems}
JsonValues == Scalars \cup Lists \cup Dicts

Front(s) == SubSeq(s, 1, Len(s) - 1)
Texts ==
    LET good == {Compact(v) : v \in JsonValues} IN
    good \cup {<<" ">> \o s \o <<" ">> : s \in good}
         \cup {Front(s) : s \in good}
         \cup {Tail(s) : s \in good}
         \cup {s \o <<"h">> : s \in good}
         \cup {<<"h", " ", "w">>, <<"{", "\"k\"", ":", "1", ",", "\"k\"", ":", "null", "}">>}
Bodies == Texts \cup {<<InvalidByte>>, <<"[", InvalidByte, "]">>, <<LeadByte>>,
                    <<"h", LeadByte, ContByte>>}

SmallBodies ==
    { <<"[", "1", ",", "null", "]">>, <<"[", "]">>,
      <<"{", "\"k\"", ":", "1", "}">>, <<"h", LeadByte, ContByte>>, <<InvalidByte>> }

\* ------------------------------------------------------------------------
\* The store
\* ------------------------------------------------------------------------
Obj(key, body) == [Key |-> key, Size |-> Len(body), Body |-> body]
Keys == {AllKeys[n] : n \in 1..Len(AllKeys)}
Range(f) == {f[n] : n \in DOMAIN f}
Injective(f) == \A a, b \in DOMAIN f : f[a] = f[b] => a = b

ObjectSeqs(B) ==
    UNION {{[n \in 1..m |-> Obj(ks[n], bs[n])] :
               ks \in {f \in [1..m -> Keys] : Injective(f)}, bs \in [1..m -> B]}
           : m \in 0..MaxObjs}

BucketStates ==
    {<<>>, <<OtherBucket>>, <<bucket_name>>, <<OtherBucket, bucket_name>>}

\* errors a store call can end in besides what the store's state decides
NoFault == [kind |-> "none", code |-> "", op |-> ""]
Faults ==
    { [kind |-> "ClientError", code |-> "AccessDenied", op |-> ""],
      [kind |-> "EndpointConnectionError", code |-> "", op |-> ""] }
ClientError(code, op) == [kind |-> "ClientError", code |-> code, op |-> op]
During(f, op) == [f EXCEPT !.op = op]
\* str(e)
ErrText(e) == <<e.kind, e.code, e.op>>

\* ------------------------------------------------------------------------
\* State
\* ------------------------------------------------------------------------
VARIABLES
    buckets,      \* store: names of the caller's buckets, as list_buckets returns them
    objects,      \* store: objects of bucket_name, as list_objects_v2 returns them
    tool,         \* script being run: "create" or "check"
    pc,           \* position in the script
    out,          \* lines printed by the run
    calls,        \* store calls issued by the run, each with Len(out) at the call
    listing,      \* objects.get('Contents', [])
    names,        \* buckets['Buckets']
    i,            \* loop index
    content,      \* decoded text of the object being inspected
    err,          \* exception raised in the run
    outcome,      \* "running", "completed", "reported" or "raised"
    existed,      \* bucket_name existed when the run started
    prev,         \* summary of the previous run
    nruns         \* runs finished

store == <<buckets, objects>>
locals == <<listing, names, i, content>>
vars == <<buckets, objects, tool, pc, out, calls, listing, names, i, content,
          err, outcome, existed, prev, nruns>>

Line(k, key, n, text) == [k |-> k, key |-> key, n |-> n, text |-> text]
Call(op, key) == [op |-> op, key |-> key, at |-> Len(out)]
Kinds(ls) == {ls[n].k : n \in 1..Len(ls)}
NoPrev == [tool |-> "none", outcome |-> "none", msgs |-> {}, failed |-> FALSE,
           existed |-> FALSE]

BucketExists == bucket_name \in Range(buckets)

Fresh ==
    /\ tool = "none" /\ pc = "idle" /\ out = <<>> /\ calls = <<>>
    /\ listing = <<>> /\ names = <<>> /\ i = 1 /\ content = <<>>
    /\ err = NoFault /\ outcome = "none" /\ existed = FALSE /\ prev = NoPrev

Init ==
    /\ buckets \in BucketStates
    /\ objects \in (IF BucketExists THEN ObjectSeqs(SmallBodies) ELSE {<<>>})
    /\ Fresh
    /\ nruns = 0

\* one object with any of the generated contents, and one run
InitContent ==
    /\ buckets \in {<<>>, <<bucket_name>>}
    /\ objects \in (IF BucketExists THEN {<<Obj("a.json", b)>> : b \in Bodies}
                    ELSE {<<>>})
    /\ Fresh
    /\ nruns = MaxRuns - 1

\* ------------------------------------------------------------------------
\* Exceptions: both scripts wrap their body in try / except ClientError
\* ------------------------------------------------------------------------
Raise(e, handler) ==
    /\ err' = e
    /\ IF e.kind = "ClientError"
       THEN pc' = handler /\ outcome' = outcome
       ELSE pc' = "done" /\ outcome' = "raised"

\* entry into a script: nothing printed, no call made, locals unset
Enter(t, start) ==
    /\ tool' = t /\ pc' = start
    /\ out' = <<>> /\ calls' = <<>>
    /\ listing' = <<>> /\ names' = <<>> /\ i' = 1 /\ content' = <<>>
    /\ err' = NoFault /\ outcome' = "running"
    /\ existed' = BucketExists
    /\ UNCHANGED <<store, prev, nruns>>

\* ------------------------------------------------------------------------
\* create_bucket.py : create_s3_bucket()
\* ------------------------------------------------------------------------
StartCreate ==
    /\ pc = "idle" /\ nruns < MaxRuns
    /\ Enter("create", "create_bucket")

\* s3_client.create_bucket(Bucket=bucket_name)
CreateBucket ==
    /\ pc = "create_bucket"
    /\ calls' = Append(calls, Call("create_bucket", ""))
    /\ \E f \in Faults \cup {NoFault} :
         IF f # NoFault
         THEN Raise(During(f, "CreateBucket"), "create_except") /\ buckets' = buckets
         ELSE IF BucketExists
         THEN /\ Raise(ClientError("BucketAlreadyOwnedByYou", "CreateBucket"),
                       "create_except")
              /\ buckets' = buckets
         ELSE /\ buckets' = Append(buckets, bucket_name)
              /\ pc' = "print_created"
              /\ UNCHANGED <<err, outcome>>
    /\ UNCHANGED <<objects, tool, out, locals, existed, prev, nruns>>

PrintCreated ==
    /\ pc = "print_created"
    /\ out' = Append(out, Line("created", bucket_name, 0, <<>>))
    /\ pc' = "list_buckets"
    /\ UNCHANGED <<store, tool, calls, locals, err, outcome, existed, prev, nruns>>

\* buckets = s3_client.list_buckets()
ListBuckets ==
    /\ pc = "list_buckets"
    /\ calls' = Append(calls, Call("list_buckets", ""))
    /\ \E f \in Faults \cup {NoFault} :
         IF f # NoFault
         THEN Raise(During(f, "ListBuckets"), "create_except") /\ names' = names
         ELSE /\ names' = buckets
              /\ pc' = "print_available"
              /\ UNCHANGED <<err, outcome>>
    /\ UNCHANGED <<store, tool, out, listing, i, content, existed, prev, nruns>>

PrintAvailable ==
    /\ pc = "print_available"
    /\ out' = Append(out, Line("available", "", 0, <<>>))
    /\ i' = 1
    /\ pc' = "bucket_loop"
    /\ UNCHANGED <<store, tool, calls, listing, names, content, err, outcome,
                   existed, prev, nruns>>

\* for bucket in buckets['Buckets']: print(bucket['Name'])
PrintBucketName ==
    /\ pc = "bucket_loop"
    /\ IF i <= Len(names)
       THEN /\ out' = Append(out, Line("bucket", names[i], 0, <<>>))
            /\ i' = i + 1
            /\ UNCHANGED <<pc, outcome>>
       ELSE /\ pc' = "done" /\ outcome' = "completed"
            /\ UNCHANGED <<out, i>>
    /\ UNCHANGED <<store, tool, calls, listing, names, content, err, existed,
                   prev, nruns>>

\* CreateExcept comparing against the code of a bucket owned by someone else
CreateExceptWrongCode ==
    /\ pc = "create_except"
    /\ IF err.code = "BucketAlreadyExists"
       THEN /\ out' = Append(out, Line("exists", bucket_name, 0, <<>>))
            /\ outcome' = "completed"
       ELSE /\ out' = Append(out, Line("create_error", "", 0, ErrText(err)))
            /\ outcome' = "reported"
    /\ pc' = "done"
    /\ UNCHANGED <<store, tool, calls, locals, err, existed, prev, nruns>>

\* except ClientError as e
CreateExcept ==
    /\ pc = "create_except"
    /\ IF err.code = "BucketAlreadyOwnedByYou"
       THEN /\ out' = Append(out, Line("exists", bucket_name, 0, <<>>))
            /\ outcome' = "completed"
       ELSE /\ out' = Append(out, Line("create_error", "", 0, ErrText(err)))
            /\ outcome' = "reported"
    /\ pc' = "done"
    /\ UNCHANGED <<store, tool, calls, locals, err, existed, prev, nruns>>

\* ------------------------------------------------------------------------
\* check_s3_data.py : check_s3_data()
\* ------------------------------------------------------------------------
StartCheck ==
    /\ pc = "idle" /\ nruns < MaxRuns
    /\ Enter("check", "list_objects")

\* objects = s3_client.list_objects_v2(Bucket=bucket_name)
ListObjects ==
    /\ pc = "list_objects"
    /\ calls' = Append(calls, Call("list_objects", ""))
    /\ \E f \in Faults \cup {NoFault} :
         IF f # NoFault
         THEN Raise(During(f, "ListObjectsV2"), "check_except") /\ listing' = listing
         ELSE IF ~BucketExists
         THEN /\ Raise(ClientError("NoSuchBucket", "ListObjectsV2"), "check_except")
              /\ listing' = listing
         ELSE /\ listing' = [n \in 1..Len(objects) |->
                                [Key |-> objects[n].Key, Size |-> objects[n].Size]]
              /\ pc' = "print_files"
              /\ UNCHANGED <<err, outcome>>
    /\ UNCHANGED <<store, tool, out, names, i, content, existed, prev, nruns>>

PrintFilesHeader ==
    /\ pc = "print_files"
    /\ out' = Append(out, Line("files", "", 0, <<>>))
    /\ i' = 1
    /\ pc' = "file_loop"
    /\ UNCHANGED <<store, tool, calls, listing, names, content, err, outcome,
                   existed, prev, nruns>>

FileLine(obj) == Line("file", obj.Key, obj.Size, <<>>)

\* PrintFileLine leaving the loop one entry early
PrintFileLineStopsEarly ==
    /\ pc = "file_loop"
    /\ IF i < Len(listing)
       THEN /\ out' = Append(out, FileLine(listing[i]))
            /\ i' = i + 1
            /\ pc' = pc
       ELSE /\ pc' = "inspect_loop" /\ i' = 1
            /\ out' = out
    /\ UNCHANGED <<store, tool, calls, listing, names, content, err, outcome,
                   existed, prev, nruns>>

\* first loop over objects.get('Contents', [])
PrintFileLine ==
    /\ pc = "file_loop"
    /\ IF i <= Len(listing)
       THEN /\ out' = Append(out, FileLine(listing[i]))
            /\ i' = i + 1
            /\ pc' = pc
       ELSE /\ pc' = "inspect_loop" /\ i' = 1
            /\ out' = out
    /\ UNCHANGED <<store, tool, calls, listing, names, content, err, outcome,
                   existed, prev, nruns>>

\* second loop over objects.get('Contents', []): the two header lines
InspectLoop ==
    /\ pc = "inspect_loop"
    /\ IF i <= Len(listing)
       THEN /\ out' = out \o <<Line("content_of", listing[i].Key, 0, <<>>),
                              Line("rule", "", 0, <<>>)>>
            /\ pc' = "get_object"
       ELSE /\ pc' = "footer"
            /\ out' = out
    /\ UNCHANGED <<store, tool, calls, locals, err, outcome, existed, prev, nruns>>

StoredBody(key) ==
    LET hits == {n \in 1..Len(objects) : objects[n].Key = key} IN
    objects[CHOOSE n \in hits : TRUE].Body

\* GetObject consuming the object it reads
GetObjectDeletes ==
    /\ pc = "get_object"
    /\ calls' = Append(calls, Call("get_object", listing[i].Key))
    /\ LET d == Decode(StoredBody(listing[i].Key)) IN
       /\ d.ok
       /\ content' = d.text
       /\ pc' = "classify"
       /\ objects' = SelectSeq(objects, LAMBDA o : o.Key # listing[i].Key)
    /\ UNCHANGED <<buckets, tool, out, listing, names, i, err, outcome, existed,
                   prev, nruns>>

\* response = s3_client.get_object(...); response['Body'].read().decode('utf-8')
GetObject ==
    /\ pc = "get_object"
    /\ calls' = Append(calls, Call("get_object", listing[i].Key))
    /\ \E f \in Faults \cup {NoFault} :
         IF f # NoFault
         THEN Raise(During(f, "GetObject"), "check_except") /\ content' = content
         ELSE LET d == Decode(StoredBody(listing[i].Key)) IN
              IF d.ok
              THEN /\ content' = d.text
                   /\ pc' = "classify"
                   /\ UNCHANGED <<err, outcome>>
              ELSE /\ Raise([kind |-> "UnicodeDecodeError", code |-> "", op |-> ""],
                            "check_except")
                   /\ content' = content
    /\ UNCHANGED <<store, tool, out, listing, names, i, existed, prev, nruns>>

\* ClassifyLines dumping the whole list instead of its first element
ClassifyLinesDumpsWholeList(text) ==
    LET r == JsonLoads(text)
        data == r.val
        isList == data.t = "list"
    IN  IF r.ok
        THEN <<Line("structure", "", 0, <<>>),
               Line("records", "", IF isList THEN Len(data.items) ELSE 1, <<>>)>>
             \o (IF isList /\ Len(data.items) > 0
                 THEN <<Line("sample", "", 0, <<>>),
                        Line("json", "", 0, JsonDumps(data))>>
                 ELSE <<Line("json", "", 0, JsonDumps(data))>>)
        ELSE <<Line("not_json", "", 0, <<>>), Line("raw", "", 0, text)>>

\* ClassifyLines sampling every non-empty container, dicts included
ClassifyLinesSamplesDict(text) ==
    LET r == JsonLoads(text)
        data == r.val
        isList == data.t = "list"
    IN  IF r.ok
        THEN <<Line("structure", "", 0, <<>>),
               Line("records", "", IF isList THEN Len(data.items) ELSE 1, <<>>)>>
             \o (IF Len(data.items) > 0
                 THEN <<Line("sample", "", 0, <<>>),
                        Line("json", "", 0, JsonDumps(data.items[1]))>>
                 ELSE <<Line("json", "", 0, JsonDumps(data))>>)
        ELSE <<Line("not_json", "", 0, <<>>), Line("raw", "", 0, text)>>

\* ClassifyLines printing the notice without the raw content
ClassifyLinesOmitsRaw(text) ==
    LET r == JsonLoads(text)
        data == r.val
        isList == data.t = "list"
    IN  IF r.ok
        THEN <<Line("structure", "", 0, <<>>),
               Line("records", "", IF isList THEN Len(data.items) ELSE 1, <<>>)>>
             \o (IF isList /\ Len(data.items) > 0
                 THEN <<Line("sample", "", 0, <<>>),
                        Line("json", "", 0, JsonDumps(data.items[1]))>>
                 ELSE <<Line("json", "", 0, JsonDumps(data))>>)
        ELSE <<Line("not_json", "", 0, <<>>)>>

\* the inner try / except json.JSONDecodeError
ClassifyLines(text) ==
    LET r == JsonLoads(text)
        data == r.val
        isList == data.t = "list"
    IN  IF r.ok
        THEN <<Line("structure", "", 0, <<>>),
               Line("records", "", IF isList THEN Len(data.items) ELSE 1, <<>>)>>
             \o (IF isList /\ Len(data.items) > 0
                 THEN <<Line("sample", "", 0, <<>>),
                        Line("json", "", 0, JsonDumps(data.items[1]))>>
                 ELSE <<Line("json", "", 0, JsonDumps(data))>>)
        ELSE <<Line("not_json", "", 0, <<>>), Line("raw", "", 0, text)>>

Classify ==
    /\ pc = "classify"
    /\ out' = out \o ClassifyLines(content)
    /\ i' = i + 1
    /\ pc' = "inspect_loop"
    /\ UNCHANGED <<store, tool, calls, listing, names, content, err, outcome,
                   existed, prev, nruns>>

PrintFooter ==
    /\ pc = "footer"
    /\ out' = Append(out, Line("footer", "", 0, <<>>))
    /\ pc' = "done" /\ outcome' = "completed"
    /\ UNCHANGED <<store, tool, calls, locals, err, existed, prev, nruns>>

\* CheckExcept reporting the error and going on with the next key
CheckExceptContinues ==
    /\ pc = "check_except"
    /\ out' = Append(out, Line("access_error", "", 0, ErrText(err)))
    /\ IF i < Len(listing)
       THEN pc' = "inspect_loop" /\ i' = i + 1 /\ outcome' = outcome
       ELSE pc' = "done" /\ i' = i /\ outcome' = "reported"
    /\ UNCHANGED <<store, tool, calls, listing, names, content, err, existed,
                   prev, nruns>>

\* except ClientError as e
CheckExcept ==
    /\ pc = "check_except"
    /\ out' = Append(out, Line("access_error", "", 0, ErrText(err)))
    /\ pc' = "done" /\ outcome' = "reported"
    /\ UNCHANGED <<store, tool, calls, locals, err, existed, prev, nruns>>

\* ------------------------------------------------------------------------
\* End of a run: the function returns, or the exception leaves it
\* ------------------------------------------------------------------------
Messages == Kinds(out) \cap {"created", "exists", "create_error", "access_error"}

Exit ==
    /\ pc = "done"
    /\ prev' = [tool |-> tool, outcome |-> outcome, msgs |-> Messages,
                failed |-> err # NoFault /\ err.code # "BucketAlreadyOwnedByYou",
                existed |-> existed]
    /\ nruns' = nruns + 1
    /\ pc' = "idle"
    /\ UNCHANGED <<store, tool, out, calls, locals, err, outcome, existed>>

Next ==
    \/ StartCreate \/ CreateBucket \/ PrintCreated \/ ListBuckets
    \/ PrintAvailable \/ PrintBucketName \/ CreateExcept
    \/ StartCheck \/ ListObjects \/ PrintFilesHeader \/ PrintFileLine
    \/ InspectLoop \/ GetObject \/ Classify \/ PrintFooter \/ CheckExcept
    \/ Exit

Spec == Init /\ [][Next]_vars
SpecContent == InitContent /\ [][Next]_vars

TypeOK ==
    /\ pc \in {"idle", "done", "create_bucket", "print_created", "list_buckets",
               "print_available", "bucket_loop", "create_except", "list_objects",
               "print_files", "file_loop", "inspect_loop", "get_object",
               "classify", "footer", "check_except"}
    /\ outcome \in {"none", "running", "completed", "reported", "raised"}
    /\ nruns \in 0..MaxRuns

\* ------------------------------------------------------------------------
\* Properties
\* ------------------------------------------------------------------------
Count(seq, x) == Cardinality({n \in 1..Len(seq) : seq[n] = x})
LastLines(n) == SubSeq(out, Len(out) - n + 1, Len(out))
\* the run's store call that failed, if any, did so with more than the
\* benign conflict
StoreCallFailed ==
    \/ err.kind = "ClientError" /\ err.code # "BucketAlreadyOwnedByYou"
    \/ err.kind = "EndpointConnectionError"
TwoCreateRuns == pc = "done" /\ tool = "create" /\ prev.tool = "create"

StoreReturnedError ==
    err.kind = "ClientError" /\ err.code # "BucketAlreadyOwnedByYou"
CallOf(op) ==
    CASE op = "CreateBucket" -> "create_bucket"
      [] op = "ListBuckets" -> "list_buckets"
      [] op = "ListObjectsV2" -> "list_objects"
      [] op = "GetObject" -> "get_object"
      [] OTHER -> "none"

\* C2: when the store answers a call of either tool with an error other than
\* the already-owned conflict, the run ends with a failure message carrying
\* the error's detail as its last line, and the call that got the error is
\* the run's last store call, made just before that line.
C2_StoreErrorSurfaced ==
    (pc = "done" /\ StoreReturnedError) =>
        /\ outcome = "reported"
        /\ out # <<>>
        /\ out[Len(out)].k \in {"create_error", "access_error"}
        /\ out[Len(out)].text = ErrText(err)
        /\ calls[Len(calls)].op = CallOf(err.op)
        /\ calls[Len(calls)].at = Len(out) - 1

C2_Witness ==
    /\ tool = "check" /\ pc = "done" /\ StoreReturnedError
    /\ Len(listing) = 2 /\ err.op = "GetObject"
    /\ Len(calls) = 2 /\ calls[2].key = listing[1].Key
    /\ out[Len(out)].text = <<"ClientError", "AccessDenied", "GetObject">>

\* C3: every run ends completed or failed-and-reported; no exception leaves
\* create_s3_bucket or check_s3_data.
C3_NoErrorEscapes ==
    pc = "done" => outcome \in {"completed", "reported"}

IsFileLine(l) == l.k = "file"
ReturnedEntries == [n \in 1..Len(objects) |-> FileLine(objects[n])]
Pass1Done ==
    /\ tool = "check"
    /\ \/ pc \in {"inspect_loop", "get_object", "classify", "footer"}
       \/ "footer" \in Kinds(out)
       \/ Len(calls) >= 2

\* C4: pass 1 prints one line per entry list_objects returned, with the
\* entry's key and size, in the returned order: during the pass the lines
\* printed are a prefix of the entries, and after it they are all of them,
\* right after the header.
C4_ListingCompleteInOrder ==
    /\ (tool = "check" /\ pc = "file_loop") =>
           SelectSeq(out, IsFileLine) = SubSeq(ReturnedEntries, 1, i - 1)
    /\ Pass1Done =>
           /\ SelectSeq(out, IsFileLine) = ReturnedEntries
           /\ out[1].k = "files"
           /\ SubSeq(out, 2, 1 + Len(objects)) = ReturnedEntries

C4_Witness ==
    /\ Pass1Done /\ Len(objects) = 2
    /\ objects[1].Key = "b.txt" /\ objects[2].Key = "a.json"
    /\ objects[1].Size # objects[2].Size

\* the inspector has just printed the classification of entry i - 1
JustClassified == tool = "check" /\ pc = "inspect_loop" /\ i > 1
Parsed == JsonLoads(content)

\* C5 (as claimed): for content that parses as a JSON array of any length the
\* inspector reports the array's length as record count and pretty-prints
\* the first element, and only it, as the sample.
C5_ArraySampling ==
    (JustClassified /\ Parsed.ok /\ Parsed.val.t = "list") =>
        /\ Len(out) >= 5
        /\ LET l == LastLines(5) IN
           /\ l[1].k = "rule" /\ l[2].k = "structure"
           /\ l[3] = Line("records", "", Len(Parsed.val.items), <<>>)
           /\ l[4].k = "sample"
           /\ l[5].k = "json"
           /\ Len(Parsed.val.items) > 0
           /\ l[5].text = JsonDumps(Parsed.val.items[1])

\* C5 (amended): for content that parses as a JSON array the inspector
\* reports the array's length as record count; for a non-empty array it
\* then prints the sample header and pretty-prints the first element only,
\* for the empty array it prints no sample header and pretty-prints the
\* empty array itself.
C5_ArraySamplingNonEmpty ==
    (JustClassified /\ Parsed.ok /\ Parsed.val.t = "list") =>
        LET xs == Parsed.val.items
            printed == IF xs = <<>> THEN 3 ELSE 4
            l == LastLines(printed + 1)
        IN  /\ Len(out) > printed
            /\ l[1].k = "rule" /\ l[2].k = "structure"
            /\ l[3] = Line("records", "", Len(xs), <<>>)
            /\ IF xs = <<>>
               THEN l[4] = Line("json", "", 0, <<"[", "]">>)
               ELSE /\ l[4].k = "sample"
                    /\ l[5] = Line("json", "", 0, JsonDumps(xs[1]))

C5_Witness ==
    /\ JustClassified /\ Parsed.ok /\ Parsed.val.t = "list"
    /\ Len(Parsed.val.items) = 3
    /\ Parsed.val.items[1].t = "dict" /\ Parsed.val.items[2].t = "int"
    /\ out[Len(out)].text = <<"{", "\n", "  ", "\"k\"", ":", " ", "1", "\n", "}">>

\* C6: for content that parses as JSON but not as an array the inspector
\* prints the structure line and pretty-prints the whole parsed value, with
\* no sample header.
C6_NonArrayPassthrough ==
    (JustClassified /\ Parsed.ok /\ Parsed.val.t # "list") =>
        /\ Len(out) >= 4
        /\ LET l == LastLines(4) IN
           /\ l[1].k = "rule" /\ l[2].k = "structure" /\ l[3].k = "records"
           /\ l[4] = Line("json", "", 0, JsonDumps(Parsed.val))

C6_Witness ==
    /\ JustClassified /\ Parsed.ok /\ Parsed.val.t = "dict"
    /\ Parsed.val.items # <<>>
    /\ out[Len(out)].text # content

\* C7: classifying content that does not parse as JSON prints the notice and
\* then the decoded text of the stored object unchanged, raises nothing, and
\* moves on to the next key of the listing.
C7_NonJsonFallback ==
    [][(pc = "classify" /\ ~JsonLoads(content).ok) =>
          /\ out' = out \o <<Line("not_json", "", 0, <<>>),
                             Line("raw", "", 0,
                                  Decode(StoredBody(listing[i].Key)).text)>>
          /\ pc' = "inspect_loop" /\ i' = i + 1
          /\ outcome' = "running" /\ err' = NoFault]_vars

C7_Witness ==
    /\ tool = "check" /\ pc = "get_object" /\ i = 2
    /\ ~JsonLoads(content).ok
    /\ out[Len(out) - 2].k = "raw" /\ out[Len(out) - 2].text = content
    /\ EAcute \in Range(content)

\* C8: a create_s3_bucket run that returns ends in exactly one of success,
\* benign conflict and hard failure, and prints that outcome's message and
\* no other's.
C8_OneOutcomeMessage ==
    (tool = "create" /\ pc = "done" /\ outcome # "raised") =>
        \/ Messages = {"created"} /\ outcome = "completed"
        \/ Messages = {"exists"} /\ outcome = "completed"
        \/ Messages = {"create_error"} /\ outcome = "reported"

\* C9: a step of an inspector run leaves the store's buckets and objects as
\* they were, and the run's store calls are list_objects and get_object only.
C9_InspectorReadOnly ==
    [][tool' = "check" =>
          /\ buckets' = buckets /\ objects' = objects
          /\ \A n \in 1..Len(calls') :
                 calls'[n].op \in {"list_objects", "get_object"}]_vars

C9_Witness ==
    /\ tool = "check" /\ pc = "done" /\ outcome = "completed"
    /\ Len(calls) = 3 /\ calls[3].op = "get_object"

\* C10: an inspector run in which no store call fails calls list_objects
\* once and first, then get_object once per listing entry in listing order;
\* the header and every pass-1 line precede the first get_object; between
\* two get_object calls lie exactly the classification of the earlier key
\* and the two header lines of the later; for an empty listing the output is
\* header and footer, with no get_object, and the run completes.
C10_CallSequence ==
    (tool = "check" /\ pc = "done" /\ ~StoreCallFailed) =>
        /\ outcome = "completed"
        /\ Len(calls) = 1 + Len(objects)
        /\ calls[1].op = "list_objects"
        /\ \A n \in 1..Len(objects) :
              /\ calls[n + 1].op = "get_object"
              /\ calls[n + 1].key = objects[n].Key
              /\ calls[n + 1].at >= 1 + Len(objects) + 2
              /\ LET upto == IF n < Len(objects) THEN calls[n + 2].at - 2
                             ELSE Len(out) - 1
                 IN SubSeq(out, calls[n + 1].at + 1, upto)
                      = ClassifyLines(Decode(objects[n].Body).text)
        /\ (objects = <<>> => Kinds(out) = {"files", "footer"} /\ Len(out) = 2)

====
